---- MODULE Spec2Model ----
(***************************************************************************)
(* uploader.py: upload one file or a directory tree to an S3 bucket.       *)
(*                                                                         *)
(* Strings the program computes with (s3_root, s3_path, file names, keys)  *)
(* are sequences of one-character strings, so that strip('/'), the f-string*)
(* joins and the slash properties of keys are computed and not assumed.    *)
(* A filesystem path is a sequence of path segments, each a string.        *)
(***************************************************************************)
EXTENDS Integers, Sequences, FiniteSets, TLC

VARIABLES
    argv,               \* the command line: s3_root, s3_path, s3_visibility, required flags
    disk,               \* what --path names on disk: nothing, a file, or a directory tree
    pc,                 \* position of main()
    args,               \* the namespace parse_args() returned
    client,             \* TRUE once get_s3_client() has constructed the client
    files,              \* upload_dir: the enumerated list `files`
    idx,                \* upload_dir: 1-based position of the for loop in `files`
    computed,           \* the (file, key) pairs computed so far, in order
    calls,              \* client.upload_file calls issued so far, in order
    bytes_total,        \* upload_file: os.stat(path).st_size, the bar's total
    bytes_transferred,  \* upload_file: the nonlocal counter of bytes_count
    progress_n,         \* upload_file: progress_bar.n, the value the bar displays
    done_printed,       \* number of times 'Done.' was printed
    err                 \* why the run ended in an error, or "none"

vars == <<argv, disk, pc, args, client, files, idx, computed, calls, bytes_total,
          bytes_transferred, progress_n, done_printed, err>>

(***************************************************************************)
(* Bounds of the model.                                                    *)
(***************************************************************************)
MaxFiles == 3           \* most regular files in a source tree
MaxSize == 3            \* largest file size in bytes

(***************************************************************************)
(* Python values.                                                          *)
(***************************************************************************)
None == "None"          \* None where the other values are Python strings
NoneSeq == <<"None">>   \* None where the other values are character sequences

ALLOWED_VISIBILITIES == <<"private", "public-read">>

\* str.strip('/'): drop every leading and every trailing '/'.
RECURSIVE LStrip(_)
LStrip(s) == IF s # <<>> /\ Head(s) = "/" THEN LStrip(Tail(s)) ELSE s

RECURSIVE RStrip(_)
RStrip(s) == IF s # <<>> /\ s[Len(s)] = "/" THEN RStrip(SubSeq(s, 1, Len(s) - 1)) ELSE s

Strip(s) == RStrip(LStrip(s))

\* Truth value of `prefix` in `if prefix:` - None and '' are both falsy.
Truthy(prefix) == prefix # NoneSeq /\ prefix # <<>>

\* Mutation: the destination path is used as given, not stripped.
StoreAtNoStrip(s3_root, s3_path) ==
    IF Truthy(s3_root) THEN s3_root \o <<"/">> \o s3_path ELSE s3_path

\* prefix = s3_root; store_at = s3_path.strip('/'); if prefix: store_at = f"{prefix}/{store_at}"
StoreAt(s3_root, s3_path) ==
    IF Truthy(s3_root) THEN s3_root \o <<"/">> \o Strip(s3_path) ELSE Strip(s3_path)

\* os.path.basename(path): the last segment of the path.
Basename(path) == path[Len(path)]

\* PurePath.as_posix() of a relative path: its segments joined by '/'.
RECURSIVE AsPosix(_)
AsPosix(rel) ==
    IF Len(rel) = 1 THEN rel[1] ELSE rel[1] \o <<"/">> \o AsPosix(Tail(rel))

\* Mutation: the whole source path is appended, not its base name.
FileKeyFullPath(s3_root, s3_path, path) ==
    StoreAt(s3_root, s3_path) \o <<"/">> \o AsPosix(path)

\* upload_file: store_at = f"{store_at}/{os.path.basename(input_arguments.path)}"
FileKey(s3_root, s3_path, path) == StoreAt(s3_root, s3_path) \o <<"/">> \o Basename(path)

\* Mutation: the base name is appended, not the relative path.
DirKeyBasename(s3_root, s3_path, rel) ==
    StoreAt(s3_root, s3_path) \o <<"/">> \o Basename(rel)

\* upload_dir: key = f"{store_at}/{filepath.relative_to(input_arguments.path).as_posix()}"
DirKey(s3_root, s3_path, rel) == StoreAt(s3_root, s3_path) \o <<"/">> \o AsPosix(rel)

\* The extension of a file name: the suffix from its last '.', a leading '.'
\* not counting (os.path.splitext, which mimetypes.guess_type uses).
RECURSIVE LastDot(_, _)
LastDot(name, i) ==
    IF i <= 1 THEN 0 ELSE IF name[i] = "." THEN i ELSE LastDot(name, i - 1)

Ext(name) ==
    LET d == LastDot(name, Len(name))
    IN IF d = 0 THEN <<>> ELSE SubSeq(name, d, Len(name))

\* mimetypes.guess_type(path)[0]: by the extension of the last segment.
GuessType(path) ==
    LET e == Ext(Basename(path))
    IN IF e = <<".", "t", "x", "t">> THEN "text/plain"
       ELSE IF e = <<".", "p", "n", "g">> THEN "image/png"
       ELSE None

\* Mutation: the check of the guessed type is missing.
MimetypeNeverNone(mimetype) == FALSE

\* `if mimetype is None: raise Exception(...)`
MimetypeIsNone(mimetype) == mimetype = None

(***************************************************************************)
(* Inputs.                                                                 *)
(***************************************************************************)
assets == <<"a", "s", "s", "e", "t", "s">>
store == <<"s", "t", "o", "r", "e">>

\* --s3_root: not given, '', 'assets', '/r/'.
Roots == { NoneSeq, <<>>, assets, <<"/", "r", "/">> }

\* --s3_path: 'store', '//store/', '/'.
S3Paths == { store, <<"/", "/">> \o store \o <<"/">>, <<"/">> }

\* None: --s3_visibility not given on the command line.
VisibilityArgs == { None, "private", "public-read", "public" }

b_txt == <<"b", ".", "t", "x", "t">>
c_png == <<"c", ".", "p", "n", "g">>

\* Paths of regular files, relative to the directory that holds them.
Universe == { <<<<"a">>, b_txt>>, <<c_png>>, <<<<"d">>, b_txt>>, <<<<"n">>>> }

Trees == { t \in SUBSET Universe : Cardinality(t) <= MaxFiles }

Disks ==
    { [kind |-> "missing", path |-> <<c_png>>, tree |-> {}, size |-> 0] }
    \cup { [kind |-> "file", path |-> p, tree |-> {}, size |-> n] :
              p \in Universe, n \in 0..MaxSize }
    \cup { [kind |-> "dir", path |-> <<<<"d">>>>, tree |-> t, size |-> 0] : t \in Trees }

\* All orders in which rglob('*') may yield the regular files of a tree.
Orders(t) ==
    { f \in [1..Cardinality(t) -> t] : \A i, j \in 1..Cardinality(t) : f[i] = f[j] => i = j }

NoArgs == [s3_root |-> NoneSeq, s3_path |-> <<>>, s3_visibility |-> None]

Init ==
    /\ argv \in [s3_root : Roots, s3_path : S3Paths, s3_visibility : VisibilityArgs,
                 required : BOOLEAN]
    /\ disk \in Disks
    /\ pc = "start"
    /\ args = NoArgs
    /\ client = FALSE
    /\ files = <<>>
    /\ idx = 1
    /\ computed = <<>>
    /\ calls = <<>>
    /\ bytes_total = 0
    /\ bytes_transferred = 0
    /\ progress_n = 0
    /\ done_printed = 0
    /\ err = "none"

(***************************************************************************)
(* parse_args                                                              *)
(***************************************************************************)
\* Mutation: --s3_visibility is declared without choices.
InChoicesAny(v) == TRUE

InChoices(v) == \E i \in 1..Len(ALLOWED_VISIBILITIES) : ALLOWED_VISIBILITIES[i] = v

\* path_object: abspath.exists()
PathExists == disk.kind # "missing"

\* argparse accepts the command line: required flags present, --path converts,
\* --s3_visibility absent or one of the choices.
ParseOk ==
    /\ argv.required
    /\ PathExists
    /\ (argv.s3_visibility # None => InChoices(argv.s3_visibility))

\* default=ALLOWED_VISIBILITIES[0]
Visibility(given) == IF given = None THEN ALLOWED_VISIBILITIES[1] ELSE given

ParseArgs ==
    /\ pc = "start"
    /\ ParseOk
    /\ args' = [s3_root |-> argv.s3_root, s3_path |-> argv.s3_path,
                s3_visibility |-> Visibility(argv.s3_visibility)]
    /\ pc' = "main"
    /\ UNCHANGED <<argv, disk, client, files, idx, computed, calls, bytes_total,
                   bytes_transferred, progress_n, done_printed, err>>

\* args_parser.parse_args() reports the error and exits.
ParseArgsError ==
    /\ pc = "start"
    /\ ~ParseOk
    /\ pc' = "error"
    /\ err' = "usage"
    /\ UNCHANGED <<argv, disk, args, client, files, idx, computed, calls, bytes_total,
                   bytes_transferred, progress_n, done_printed>>

(***************************************************************************)
(* upload_file                                                             *)
(***************************************************************************)
\* Mutation: the ACL is the default visibility, not the configured one.
CallDefaultACL(filename, key, mimetype, status) ==
    [Filename |-> filename, Key |-> key, ACL |-> ALLOWED_VISIBILITIES[1],
     ContentType |-> mimetype, status |-> status]

\* ExtraArgs={'ACL': input_arguments.s3_visibility, 'ContentType': mimetype}
Call(filename, key, mimetype, status) ==
    [Filename |-> filename, Key |-> key, ACL |-> args.s3_visibility,
     ContentType |-> mimetype, status |-> status]

\* main() takes the else branch; upload_file runs up to the raise or up to
\* the start of client.upload_file.
UploadFileBegin ==
    /\ pc = "main"
    /\ disk.kind = "file"
    /\ client' = TRUE
    /\ bytes_total' = disk.size
    /\ bytes_transferred' = 0
    /\ progress_n' = 0
    /\ LET store_at == FileKey(args.s3_root, args.s3_path, disk.path)
           mimetype == GuessType(disk.path)
       IN /\ computed' = Append(computed, [path |-> disk.path, key |-> store_at])
          /\ IF MimetypeIsNone(mimetype)
             THEN /\ pc' = "error"
                  /\ err' = "mimetype"
                  /\ calls' = calls
             ELSE /\ pc' = "upload_file"
                  /\ err' = err
                  /\ calls' = Append(calls, Call(disk.path, store_at, mimetype, "pending"))
    /\ UNCHANGED <<argv, disk, args, files, idx, done_printed>>

\* tqdm.update(n): self.n += n
TqdmUpdate(n, by) == n + by

\* The transfer reports a chunk of `size` bytes: bytes_count(size).
BytesCount ==
    /\ pc = "upload_file"
    /\ \E size \in 1..(bytes_total - bytes_transferred) :
          /\ bytes_transferred' = bytes_transferred + size
          /\ progress_n' = TqdmUpdate(progress_n, bytes_transferred + size)
    /\ UNCHANGED <<argv, disk, pc, args, client, files, idx, computed, calls, bytes_total,
                   done_printed, err>>

SetStatus(cs, i, s) == [cs EXCEPT ![i].status = s]

\* client.upload_file returns once every byte was transferred.
UploadFileReturn ==
    /\ pc = "upload_file"
    /\ bytes_transferred = bytes_total
    /\ calls' = SetStatus(calls, Len(calls), "ok")
    /\ pc' = "returned"
    /\ UNCHANGED <<argv, disk, args, client, files, idx, computed, bytes_total,
                   bytes_transferred, progress_n, done_printed, err>>

\* client.upload_file raises (auth, network, no such bucket); nothing catches it.
UploadFileError ==
    /\ pc = "upload_file"
    /\ calls' = SetStatus(calls, Len(calls), "failed")
    /\ pc' = "error"
    /\ err' = "client"
    /\ UNCHANGED <<argv, disk, args, client, files, idx, computed, bytes_total,
                   bytes_transferred, progress_n, done_printed>>

(***************************************************************************)
(* upload_dir                                                              *)
(***************************************************************************)
\* The for loop: the next iteration, or the function returns.
LoopPc(i, n) == IF i > n THEN "returned" ELSE "upload_dir"

\* main() takes the is_dir() branch; upload_dir runs up to the for loop.
UploadDirBegin ==
    /\ pc = "main"
    /\ disk.kind = "dir"
    /\ client' = TRUE
    /\ \E order \in Orders(disk.tree) :
          /\ files' = order
          /\ idx' = 1
          /\ pc' = LoopPc(1, Len(order))
    /\ UNCHANGED <<argv, disk, args, computed, calls, bytes_total, bytes_transferred,
                   progress_n, done_printed, err>>

\* Mutation: a failed file is skipped and the loop goes on.
ContinueAfterFailure(i, n) == LoopPc(i, n)

\* Where the loop goes after a file failed: the exception leaves upload_dir.
AfterFailure(i, n) == "error"

\* One iteration of the for loop, the blocking client.upload_file included.
UploadDirStep ==
    /\ pc = "upload_dir"
    /\ LET filepath == files[idx]
           key == DirKey(args.s3_root, args.s3_path, filepath)
           mimetype == GuessType(filepath)
       IN /\ computed' = Append(computed, [path |-> filepath, key |-> key])
          /\ idx' = idx + 1
          /\ IF MimetypeIsNone(mimetype)
             THEN /\ pc' = AfterFailure(idx + 1, Len(files))
                  /\ err' = "mimetype"
                  /\ calls' = calls
             ELSE \E ok \in BOOLEAN :
                  /\ calls' = Append(calls, Call(filepath, key, mimetype,
                                                 IF ok THEN "ok" ELSE "failed"))
                  /\ pc' = IF ok THEN LoopPc(idx + 1, Len(files))
                           ELSE AfterFailure(idx + 1, Len(files))
                  /\ err' = IF ok THEN err ELSE "client"
    /\ UNCHANGED <<argv, disk, args, client, files, bytes_total, bytes_transferred,
                   progress_n, done_printed>>

(***************************************************************************)
(* main                                                                    *)
(***************************************************************************)
\* Mutation: print('Done.') sits in a finally clause.
AtPrintAlways == pc \in {"returned", "error"}

\* print('Done.') runs when the upload function returned.
AtPrint == pc = "returned"

PrintDone ==
    /\ AtPrint
    /\ done_printed' = done_printed + 1
    /\ pc' = "done"
    /\ UNCHANGED <<argv, disk, args, client, files, idx, computed, calls, bytes_total,
                   bytes_transferred, progress_n, err>>

Next ==
    \/ ParseArgs
    \/ ParseArgsError
    \/ UploadFileBegin
    \/ BytesCount
    \/ UploadFileReturn
    \/ UploadFileError
    \/ UploadDirBegin
    \/ UploadDirStep
    \/ PrintDone

Spec == Init /\ [][Next]_vars

(***************************************************************************)
(* Properties.                                                             *)
(***************************************************************************)
Indices(seq) == 1..Len(seq)

\* The '<root>/' segment of a key, omitted only when the root prefix is unset.
RootSegmentUnlessUnset == IF argv.s3_root = NoneSeq THEN <<>> ELSE argv.s3_root \o <<"/">>

\* The '<root>/' segment of a key, omitted when the root prefix is unset or empty.
RootSegmentUnlessEmpty ==
    IF argv.s3_root = NoneSeq \/ argv.s3_root = <<>> THEN <<>> ELSE argv.s3_root \o <<"/">>

\* '<root>/<dest>/<tail>' for a given root segment.
KeyOf(rootSegment, tail) == rootSegment \o Strip(argv.s3_path) \o <<"/">> \o tail

ExampleTree == { <<<<"a">>, b_txt>>, <<c_png>> }

ExampleRun ==
    /\ disk.kind = "dir"
    /\ disk.tree = ExampleTree
    /\ argv.s3_root = assets
    /\ argv.s3_path = store
    /\ pc = "done"

\* assets/store/a/b.txt and assets/store/c.png
ExampleKeys ==
    { assets \o <<"/">> \o store \o <<"/", "a", "/">> \o b_txt,
      assets \o <<"/">> \o store \o <<"/">> \o c_png }

\* A directory upload computes one key for each file it reaches, in the order
\* of enumeration, and for every file of the tree when it returns.
DirKeysAre(rootSegment) ==
    disk.kind = "dir" =>
        /\ Len(computed) = idx - 1
        /\ \A i \in Indices(computed) :
              /\ computed[i].path = files[i]
              /\ computed[i].key = KeyOf(rootSegment, AsPosix(files[i]))
        /\ \A i \in Indices(calls) :
              \E j \in Indices(computed) :
                  computed[j].path = calls[i].Filename /\ computed[j].key = calls[i].Key
        /\ pc \in {"returned", "done"} =>
              /\ Len(computed) = Cardinality(disk.tree)
              /\ { computed[i].path : i \in Indices(computed) } = disk.tree
        /\ ExampleRun => { calls[i].Key : i \in Indices(calls) } = ExampleKeys

\* C1 as stated: in a directory upload every regular file produces exactly one
\* key, <root>/<dest>/<relative-posix-path>, the root segment omitted only
\* when the root prefix is unset.
C1_KeyOmitsRootOnlyWhenUnset == DirKeysAre(RootSegmentUnlessUnset)

\* C1 amended: in a directory upload every regular file the run reaches (all of
\* them when no file fails) produces exactly one key,
\* <root>/<dest>/<relative-posix-path>, the root segment omitted when the root
\* prefix is unset or empty.
C1_DirKey == DirKeysAre(RootSegmentUnlessEmpty)

C1_Witness == ExampleRun /\ Len(calls) = 2

\* A single-file upload passes one key to the client, built on the base name.
FileKeysAre(rootSegment) ==
    disk.kind = "file" =>
        /\ Len(calls) <= 1
        /\ \A i \in Indices(calls) :
              /\ calls[i].Filename = disk.path
              /\ calls[i].Key = KeyOf(rootSegment, Basename(disk.path))
        /\ \A i \in Indices(computed) :
              computed[i].key = KeyOf(rootSegment, Basename(disk.path))
        /\ (/\ argv.s3_root = assets
            /\ argv.s3_path = <<"/", "/">> \o store \o <<"/">>
            /\ disk.path = <<<<"d">>, b_txt>>) =>
              \A i \in Indices(calls) :
                  calls[i].Key = assets \o <<"/">> \o store \o <<"/">> \o b_txt

\* C2 as stated: the key of a single-file upload is <root>/<dest>/<basename>,
\* the root segment omitted only when the root prefix is unset.
C2_KeyOmitsRootOnlyWhenUnset == FileKeysAre(RootSegmentUnlessUnset)

\* C2 amended: the key passed to the client in a single-file upload is
\* <root>/<dest>/<basename>, <dest> stripped of leading and trailing slashes,
\* the root segment omitted when the root prefix is unset or empty.
C2_FileKey == FileKeysAre(RootSegmentUnlessEmpty)

C2_Witness ==
    /\ disk.kind = "file"
    /\ disk.path = <<<<"d">>, b_txt>>
    /\ argv.s3_root = assets
    /\ argv.s3_path = <<"/", "/">> \o store \o <<"/">>
    /\ pc = "returned"
    /\ Len(calls) = 1

Unguessable(path) == GuessType(path) = None

\* C3: a run that reaches a file whose content type cannot be guessed ends in
\* an error with no upload call issued for that file, and in single-file mode
\* with no upload call at all.
C3_UnguessableFailsBeforeUpload ==
    /\ (disk.kind = "file" /\ Unguessable(disk.path) /\ pc \notin {"start", "main"}) =>
          /\ pc = "error"
          /\ calls = <<>>
          /\ ~ENABLED Next
    /\ disk.kind = "dir" =>
          \A i \in 1..(idx - 1) :
              Unguessable(files[i]) =>
                  /\ pc = "error"
                  /\ err = "mimetype"
                  /\ i = idx - 1
                  /\ ~ENABLED Next
    /\ \A i \in Indices(calls) : ~Unguessable(calls[i].Filename)

C3_Witness ==
    /\ disk.kind = "dir"
    /\ err = "mimetype"
    /\ Len(calls) = 2
    /\ Unguessable(files[3])

\* C4: when the first failure of a directory upload is at file fN, exactly
\* f1..f(N-1) have been uploaded, each once and in order, no call is issued
\* for a file after fN and the run has ended in an error.
C4_FirstFailureAborts ==
    disk.kind = "dir" =>
        LET N == idx - 1
        IN /\ err = "none" =>
                /\ Len(calls) = N
                /\ \A i \in 1..N : calls[i].Filename = files[i] /\ calls[i].status = "ok"
           /\ err \in {"mimetype", "client"} =>
                /\ pc = "error"
                /\ ~ENABLED Next
                /\ N \in 1..Len(files)
                /\ \A i \in 1..(N - 1) :
                      calls[i].Filename = files[i] /\ calls[i].status = "ok"
                /\ Len(calls) = IF err = "client" THEN N ELSE N - 1
                /\ err = "client" =>
                      calls[N].Filename = files[N] /\ calls[N].status = "failed"
                /\ \A i \in Indices(calls) :
                      \A j \in (N + 1)..Len(files) : calls[i].Filename # files[j]

C4_Witness ==
    /\ disk.kind = "dir"
    /\ err = "client"
    /\ Len(files) = 3
    /\ idx = 3
    /\ calls[1].status = "ok"

ConfigError ==
    \/ argv.s3_visibility \notin {None, "private", "public-read"}
    \/ ~argv.required
    \/ disk.kind = "missing"

\* C5: after a configuration error (visibility outside {private, public-read},
\* a required flag missing, a source path that does not exist) the run has
\* ended in an error with no client constructed, no upload call issued and
\* 'Done.' not printed.
C5_ConfigErrorStopsRun ==
    (ConfigError /\ pc # "start") =>
        /\ pc = "error"
        /\ err = "usage"
        /\ ~client
        /\ calls = <<>>
        /\ done_printed = 0
        /\ ~ENABLED Next

C5_Witness ==
    /\ pc = "error"
    /\ argv.s3_visibility = "public"
    /\ argv.required
    /\ disk.kind = "dir"

\* C6: 'Done.' is printed at most once, only after parsing succeeded and every
\* upload call of the selected mode completed without error, and never in a
\* run that ended in an error.
C6_DoneOnlyOnSuccess ==
    /\ done_printed <= 1
    /\ err # "none" => done_printed = 0
    /\ done_printed = 1 =>
          /\ ~ConfigError
          /\ err = "none"
          /\ \A i \in Indices(calls) : calls[i].status = "ok"
          /\ disk.kind = "file" => Len(calls) = 1 /\ calls[1].Filename = disk.path
          /\ disk.kind = "dir" =>
                /\ Len(calls) = Cardinality(disk.tree)
                /\ { calls[i].Filename : i \in Indices(calls) } = disk.tree

C6_Witness == done_printed = 1 /\ disk.kind = "dir" /\ Len(calls) = 2

\* C7: after every transfer callback the progress bar displays the cumulative
\* number of bytes transferred, never more than the file size, and the file
\* size once the transfer completed.
C7_ProgressIsCumulative ==
    disk.kind = "file" =>
        /\ progress_n = bytes_transferred
        /\ progress_n <= bytes_total
        /\ pc \in {"returned", "done"} => progress_n = disk.size

NoRedundantSlashes(key) ==
    /\ key # <<>> => Head(key) # "/" /\ key[Len(key)] # "/"
    /\ \A i \in 1..(Len(key) - 1) : ~(key[i] = "/" /\ key[i + 1] = "/")

\* C8: no key passed to the client starts with '/', ends with '/' or contains
\* two consecutive '/'.
C8_KeysHaveNoRedundantSlashes ==
    \A i \in Indices(calls) : NoRedundantSlashes(calls[i].Key)

ConfiguredVisibility ==
    IF argv.s3_visibility = None THEN "private" ELSE argv.s3_visibility

ClaimedType(path) ==
    IF Basename(path) = b_txt THEN "text/plain"
    ELSE IF Basename(path) = c_png THEN "image/png"
    ELSE None

\* C9: every upload call carries the configured visibility, one of private and
\* public-read and private when none was given, and the content type guessed
\* for the file named in the call, never a missing one.
C9_CallCarriesVisibilityAndType ==
    \A i \in Indices(calls) :
        /\ calls[i].ACL = ConfiguredVisibility
        /\ calls[i].ACL \in {"private", "public-read"}
        /\ calls[i].ContentType = ClaimedType(calls[i].Filename)
        /\ calls[i].ContentType # None

C9_Witness ==
    /\ disk.kind = "dir"
    /\ argv.s3_visibility = "public-read"
    /\ Len(calls) = 2
    /\ calls[1].ContentType # calls[2].ContentType

\* C10: in a directory upload the files are enumerated once, distinct files
\* get distinct keys and no key is passed to the client twice.
C10_KeysInjective ==
    disk.kind = "dir" =>
        /\ pc \in {"upload_dir", "returned", "done"} =>
              /\ Len(files) = Cardinality(disk.tree)
              /\ { files[i] : i \in Indices(files) } = disk.tree
        /\ \A i, j \in Indices(computed) :
              i # j => computed[i].path # computed[j].path /\ computed[i].key # computed[j].key
        /\ \A i, j \in Indices(calls) : i # j => calls[i].Key # calls[j].Key

C10_Witness ==
    /\ disk.kind = "dir"
    /\ pc = "done"
    /\ <<<<"a">>, b_txt>> \in disk.tree
    /\ <<<<"d">>, b_txt>> \in disk.tree
    /\ Len(calls) = 3

====
